---- MODULE Spec2Model ----
(***************************************************************************)
(* Model of fetch_blfs_sections.py: the command-line entry point, the      *)
(* chapter walker fetch_chapter and the page printer fetch_package.        *)
(*                                                                         *)
(* Python strings are TLA+ strings.  The web is an input: every GET draws  *)
(* its outcome (transport failure, or a status code and a document) from   *)
(* bounded sets.  A parsed index page is the sequence of the href values   *)
(* of its anchors in document order; a parsed package page is the sequence *)
(* of the texts of its h1 elements and the sequence of its pre elements    *)
(* (class and text), both in document order.                               *)
(***************************************************************************)
EXTENDS Integers, Sequences, FiniteSets, TLC

VARIABLES argv, pc, chapter, ch, index_url, index_soup, anchors, a, url,
          status, page_soup, pres, pre, requests, stdout, error, exit

vars == <<argv, pc, chapter, ch, index_url, index_soup, anchors, a, url,
          status, page_soup, pres, pre, requests, stdout, error, exit>>

(* ----------------------------- bounds ---------------------------------- *)
MaxArgs == 2
MaxLinks == 2
MaxBlocks == 2
MaxTextLen == 5

(* ------------------------ program constants ---------------------------- *)
BASE_URL == "https://www.linuxfromscratch.org/blfs/view/stable"

Usage == "Usage: fetch_blfs_sections.py CHAPTER [CHAPTER ...]"

Script == "fetch_blfs_sections.py"

(* ------------------------------ inputs --------------------------------- *)
Chapters == {"general", "x"}

Hrefs == {"a.html", "b.html", "index.html", "../index.html", "a.pdf"}

Statuses == {200, 300, 404, 500}

Chars == {" ", "\n", "m"}

RECURSIVE StringsOfLen(_)
StringsOfLen(n) ==
    IF n = 0 THEN {""}
    ELSE {c \o s : c \in Chars, s \in StringsOfLen(n - 1)}

Texts == UNION {StringsOfLen(n) : n \in 0..MaxTextLen}

SeqsUpTo(S, n) == UNION {[1..k -> S] : k \in 0..n}

ArgLists == {<<Script>> \o cs : cs \in SeqsUpTo(Chapters, MaxArgs)}

\* Every index page of up to MaxLinks anchors, and the index page with the
\* links a.html, b.html, index.html.
IndexPages ==
    SeqsUpTo(Hrefs, MaxLinks) \cup {<<"a.html", "b.html", "index.html">>}

Headings == {<<>>, <<" Foo-1.0\n", "Bar">>}

BlockTexts == {"make", " make install\n", " \n"}

PreElements ==
    {[class |-> "userinput", text |-> t] : t \in BlockTexts}
        \cup {[class |-> "screen", text |-> "ok"]}

Pages == [h1 : Headings, pre : SeqsUpTo(PreElements, MaxBlocks)]

(* --------------------------- pure functions ---------------------------- *)
\* str.strip() with no argument removes leading and trailing whitespace.
IsSpace(c) == c \in {" ", "\t", "\n", "\r"}

RECURSIVE LStrip(_)
LStrip(s) ==
    IF Len(s) > 0 /\ IsSpace(SubSeq(s, 1, 1)) THEN LStrip(SubSeq(s, 2, Len(s)))
    ELSE s

RECURSIVE RStrip(_)
RStrip(s) ==
    IF Len(s) > 0 /\ IsSpace(SubSeq(s, Len(s), Len(s)))
    THEN RStrip(SubSeq(s, 1, Len(s) - 1))
    ELSE s

\* A variant of Strip that keeps trailing whitespace (str.lstrip).
StripLeft(s) == LStrip(s)

Strip(s) == RStrip(LStrip(s))

\* The attribute selector [href$=v]: the value ends with v.
EndsWith(s, v) ==
    Len(s) >= Len(v) /\ SubSeq(s, Len(s) - Len(v) + 1, Len(s)) = v

\* soup.select('a[href$=".html"]') over the anchors of the index page.
IsHtmlLink(href) == EndsWith(href, ".html")

SelectAnchors(soup) == SelectSeq(soup, IsHtmlLink)

\* soup.select("pre.userinput") over the pre elements of a package page.
IsUserInput(p) == p.class = "userinput"

\* A variant of SelectPre without the class test (soup.select("pre")).
SelectAllPre(soup) == soup.pre

SelectPre(soup) == SelectSeq(soup.pre, IsUserInput)

\* A variant of RaisesForStatus that lets 5xx responses through.
RaisesForClientError(code) == 400 <= code /\ code < 500

\* Response.raise_for_status(): HTTPError for 4xx and 5xx status codes.
RaisesForStatus(code) == 400 <= code /\ code < 600

\* f"{BASE_URL}/{ch}/"
IndexUrl(c) == BASE_URL \o "/" \o c \o "/"

\* f"{BASE_URL}/{ch}/{href}"
PackageUrl(c, href) == BASE_URL \o "/" \o c \o "/" \o href

\* print(s) writes s and a newline to standard output.
Println(out, s) == out \o s \o "\n"

(* ------------------------------- state --------------------------------- *)
NoPage == [h1 |-> <<>>, pre |-> <<>>]

Init ==
    /\ argv \in ArgLists
    /\ pc = "main"
    /\ chapter = 2
    /\ ch = ""
    /\ index_url = ""
    /\ index_soup = <<>>
    /\ anchors = <<>>
    /\ a = 1
    /\ url = ""
    /\ status = 0
    /\ page_soup = NoPage
    /\ pres = <<>>
    /\ pre = 1
    /\ requests = <<>>
    /\ stdout = ""
    /\ error = ""
    /\ exit = -1

(* ------------------------------ actions -------------------------------- *)
\* A variant of Raise in which the exception is caught and the run exits 0.
RaiseSwallowed(e) ==
    /\ error' = e
    /\ exit' = 0
    /\ pc' = "exit"

\* An exception nobody catches: the interpreter reports it and exits with 1.
Raise(e) ==
    /\ error' = e
    /\ exit' = 1
    /\ pc' = "exit"

\* A variant of TooFewArgs that is off by one (len(sys.argv) < 1).
TooFewArgsOff(args) == Len(args) < 1

\* Line 34: len(sys.argv) < 2
TooFewArgs(args) == Len(args) < 2

\* Lines 33-37: the argument check, the usage branch, the start of the loop.
Main ==
    /\ pc = "main"
    /\ IF TooFewArgs(argv)
       THEN /\ stdout' = Println(stdout, Usage)
            /\ exit' = 1
            /\ pc' = "exit"
       ELSE /\ pc' = "for_chapter"
            /\ UNCHANGED <<stdout, exit>>
    /\ UNCHANGED <<argv, chapter, ch, index_url, index_soup, anchors, a, url,
                   status, page_soup, pres, pre, requests, error>>

\* A variant of ChapterArg that always takes the first chapter.
ChapterArgFirst(args, i) == args[2]

\* Line 37: the chapter that the loop over sys.argv[1:] hands to fetch_chapter.
ChapterArg(args, i) == args[i]

\* Lines 37-38 and 22: the loop over sys.argv[1:] takes the next chapter and
\* calls fetch_chapter, or ends the run with exit code 0.
ForChapter ==
    /\ pc = "for_chapter"
    /\ IF chapter > Len(argv)
       THEN /\ exit' = 0
            /\ pc' = "exit"
            /\ UNCHANGED <<ch, index_url, requests>>
       ELSE /\ ch' = ChapterArg(argv, chapter)
            /\ index_url' = IndexUrl(ChapterArg(argv, chapter))
            /\ requests' = <<>>
            /\ pc' = "fetch_chapter"
            /\ UNCHANGED exit
    /\ UNCHANGED <<argv, chapter, index_soup, anchors, a, url, status,
                   page_soup, pres, pre, stdout, error>>

\* Lines 23-26: GET the index page, raise_for_status, parse, select anchors.
FetchChapter ==
    /\ pc = "fetch_chapter"
    /\ requests' = Append(requests, index_url)
    /\ \/ /\ Raise("RequestException")
          /\ UNCHANGED <<status, index_soup, anchors, a>>
       \/ \E code \in Statuses :
             /\ status' = code
             /\ IF RaisesForStatus(code)
                THEN /\ Raise("HTTPError")
                     /\ UNCHANGED <<index_soup, anchors, a>>
                ELSE \E doc \in IndexPages :
                     /\ index_soup' = doc
                     /\ anchors' = SelectAnchors(doc)
                     /\ a' = 1
                     /\ pc' = "for_a"
                     /\ UNCHANGED <<error, exit>>
    /\ UNCHANGED <<argv, chapter, ch, index_url, url, page_soup, pres, pre,
                   stdout>>

\* A variant of IsSelfLink that tests the suffix (href.endswith).
IsSelfLinkSuffix(href) == EndsWith(href, "index.html")

\* Line 28: the href that the loop skips.
IsSelfLink(href) == href = "index.html"

\* Lines 26-30: one turn of the loop over the selected anchors; when the
\* loop is over fetch_chapter returns to the loop over the chapters.
ForA ==
    /\ pc = "for_a"
    /\ IF a > Len(anchors)
       THEN /\ chapter' = chapter + 1
            /\ pc' = "for_chapter"
            /\ UNCHANGED <<a, url>>
       ELSE IF IsSelfLink(anchors[a])
            THEN /\ a' = a + 1
                 /\ UNCHANGED <<chapter, url, pc>>
            ELSE /\ url' = PackageUrl(ch, anchors[a])
                 /\ pc' = "fetch_package"
                 /\ UNCHANGED <<chapter, a>>
    /\ UNCHANGED <<argv, ch, index_url, index_soup, anchors, status,
                   page_soup, pres, pre, requests, stdout, error, exit>>

\* Lines 11-13: GET the package page, raise_for_status, parse.
FetchPackage ==
    /\ pc = "fetch_package"
    /\ requests' = Append(requests, url)
    /\ stdout' = ""
    /\ pres' = <<>>
    /\ pre' = 1
    /\ \/ /\ Raise("RequestException")
          /\ UNCHANGED <<status, page_soup>>
       \/ \E code \in Statuses :
             /\ status' = code
             /\ IF RaisesForStatus(code)
                THEN /\ Raise("HTTPError")
                     /\ UNCHANGED page_soup
                ELSE \E doc \in Pages :
                     /\ page_soup' = doc
                     /\ pc' = "title"
                     /\ UNCHANGED <<error, exit>>
    /\ UNCHANGED <<argv, chapter, ch, index_url, index_soup, anchors, a, url>>

\* soup.find("h1").get_text(strip=True) for a heading with one text node.
Title(soup) == Strip(Head(soup.h1))

\* A variant of TitleLine without the newline of the format string.
TitleLineOnly(title) == "# " \o title

\* Line 15: print(f"# {title}\n")
TitleLine(title) == "# " \o title \o "\n"

\* A variant of PrintTitle that skips a page without a heading.
PrintTitleSkip ==
    /\ pc = "title"
    /\ IF page_soup.h1 = <<>>
       THEN /\ a' = a + 1
            /\ pc' = "for_a"
            /\ UNCHANGED <<stdout, pres, pre>>
       ELSE /\ stdout' = Println(stdout, TitleLine(Title(page_soup)))
            /\ pres' = SelectPre(page_soup)
            /\ pre' = 1
            /\ pc' = "for_pre"
            /\ UNCHANGED a
    /\ UNCHANGED <<argv, chapter, ch, index_url, index_soup, anchors, url,
                   status, page_soup, requests, error, exit>>

\* Lines 14-16: find the first h1 (None when there is none, and .get_text
\* on None raises AttributeError), print the title, select the blocks.
PrintTitle ==
    /\ pc = "title"
    /\ IF page_soup.h1 = <<>>
       THEN /\ Raise("AttributeError")
            /\ UNCHANGED <<stdout, pres, pre>>
       ELSE /\ stdout' = Println(stdout, TitleLine(Title(page_soup)))
            /\ pres' = SelectPre(page_soup)
            /\ pre' = 1
            /\ pc' = "for_pre"
            /\ UNCHANGED <<error, exit>>
    /\ UNCHANGED <<argv, chapter, ch, index_url, index_soup, anchors, a, url,
                   status, page_soup, requests>>

\* Lines 17-18: print(pre.get_text().strip()); print()
PrintBlock(out, p) == Println(Println(out, Strip(p.text)), "")

\* A variant of PreLoopDone that leaves the loop before the last block.
PreLoopDoneEarly(i, blocks) == i >= Len(blocks)

\* Line 16: the loop over the selected blocks is exhausted.
PreLoopDone(i, blocks) == i > Len(blocks)

\* Lines 16-18: one turn of the loop over the selected blocks; when the loop
\* is over fetch_package returns into the loop over the anchors.
ForPre ==
    /\ pc = "for_pre"
    /\ IF PreLoopDone(pre, pres)
       THEN /\ a' = a + 1
            /\ pc' = "for_a"
            /\ UNCHANGED <<stdout, pre>>
       ELSE /\ stdout' = PrintBlock(stdout, pres[pre])
            /\ pre' = pre + 1
            /\ UNCHANGED <<a, pc>>
    /\ UNCHANGED <<argv, chapter, ch, index_url, index_soup, anchors, url,
                   status, page_soup, pres, requests, error, exit>>

Next ==
    \/ Main
    \/ ForChapter
    \/ FetchChapter
    \/ ForA
    \/ FetchPackage
    \/ PrintTitle
    \/ ForPre

Spec == Init /\ [][Next]_vars

FairSpec == Spec /\ WF_vars(Next)

(* ------------------- fetch_package on one block ------------------------ *)
\* The state fetch_package is in after a successful GET of a page with the
\* heading "Foo-1.0" and one user-input block, for every text of the block
\* up to MaxTextLen characters.
PageInit ==
    /\ argv = <<Script, "x">>
    /\ pc = "title"
    /\ chapter = 2
    /\ ch = "x"
    /\ index_url = IndexUrl("x")
    /\ index_soup = <<"a.html">>
    /\ anchors = <<"a.html">>
    /\ a = 1
    /\ url = PackageUrl("x", "a.html")
    /\ status = 200
    /\ \E t \in Texts :
         page_soup = [h1 |-> <<"Foo-1.0">>,
                      pre |-> <<[class |-> "userinput", text |-> t]>>]
    /\ pres = <<>>
    /\ pre = 1
    /\ requests = <<IndexUrl("x"), PackageUrl("x", "a.html")>>
    /\ stdout = ""
    /\ error = ""
    /\ exit = -1

PageNext == PrintTitle \/ ForPre

PageSpec == PageInit /\ [][PageNext]_vars

(* ------------------------ what the claims expect ----------------------- *)
HasHtmlSuffix(h) == \E k \in 0..Len(h) : SubSeq(h, 1, k) \o ".html" = h

RECURSIVE PackageHrefs(_)
PackageHrefs(doc) ==
    IF doc = <<>> THEN <<>>
    ELSE IF HasHtmlSuffix(Head(doc)) /\ Head(doc) # "index.html"
         THEN <<Head(doc)>> \o PackageHrefs(Tail(doc))
         ELSE PackageHrefs(Tail(doc))

ExpectedRequests(c, doc) ==
    [i \in 1..Len(PackageHrefs(doc)) |->
        BASE_URL \o "/" \o c \o "/" \o PackageHrefs(doc)[i]]

IsPrefix(p, q) == Len(p) <= Len(q) /\ SubSeq(q, 1, Len(p)) = p

AllSpace(s) == \A i \in 1..Len(s) : IsSpace(SubSeq(s, i, i))

\* t is s without its leading and trailing whitespace: s = l t r with l and
\* r whitespace only and t neither starting nor ending with whitespace.
IsTrimOf(t, s) ==
    /\ \E i \in 0..Len(s) :
         /\ i + Len(t) <= Len(s)
         /\ SubSeq(s, i + 1, i + Len(t)) = t
         /\ AllSpace(SubSeq(s, 1, i))
         /\ AllSpace(SubSeq(s, i + Len(t) + 1, Len(s)))
    /\ Len(t) > 0 => /\ ~IsSpace(SubSeq(t, 1, 1))
                     /\ ~IsSpace(SubSeq(t, Len(t), Len(t)))

Substrings(s) == {SubSeq(s, i, j) : i \in 1..(Len(s) + 1), j \in 0..Len(s)}

Trim(s) == CHOOSE t \in Substrings(s) : IsTrimOf(t, s)

RECURSIVE UserInputTexts(_)
UserInputTexts(blocks) ==
    IF blocks = <<>> THEN <<>>
    ELSE IF Head(blocks).class = "userinput"
         THEN <<Head(blocks).text>> \o UserInputTexts(Tail(blocks))
         ELSE UserInputTexts(Tail(blocks))

RECURSIVE BlockLines(_)
BlockLines(texts) ==
    IF texts = <<>> THEN ""
    ELSE Trim(Head(texts)) \o "\n" \o "\n" \o BlockLines(Tail(texts))

HeaderLines(page) == "# " \o Trim(Head(page.h1)) \o "\n" \o "\n"

ExpectedOutput(page) ==
    HeaderLines(page) \o BlockLines(UserInputTexts(page.pre))

ChapterReturns == pc = "for_a" /\ a > Len(anchors)

PackageReturns == pc = "for_pre" /\ pre > Len(pres)

InChapter == pc \in {"for_a", "fetch_package", "title", "for_pre"}

(* ------------------------------- claims -------------------------------- *)
\* C1: the package requests of one fetch_chapter call are, in document
\* order, BASE_URL/ch/href for the index page's hrefs that end in ".html"
\* and are not "index.html": a prefix of them while the call runs, all of
\* them when it returns, and "index.html" is never among them.
C1_PackageRequests ==
    InChapter =>
        /\ Head(requests) = BASE_URL \o "/" \o ch \o "/"
        /\ IsPrefix(Tail(requests), ExpectedRequests(ch, index_soup))
        /\ \A i \in 2..Len(requests) :
             requests[i] # BASE_URL \o "/" \o ch \o "/index.html"
        /\ ChapterReturns => Tail(requests) = ExpectedRequests(ch, index_soup)

C1_Witness ==
    /\ ChapterReturns
    /\ index_soup = <<"a.html", "b.html", "index.html">>
    /\ requests = <<BASE_URL \o "/general/",
                    BASE_URL \o "/general/a.html",
                    BASE_URL \o "/general/b.html">>

\* C2: when fetch_package returns, what it wrote is the line "# T", a blank
\* line, and for each user-input block in document order its stripped text
\* and a blank line, and nothing else.
C2_PageOutput ==
    PackageReturns =>
        /\ page_soup.h1 # <<>>
        /\ stdout = ExpectedOutput(page_soup)

C2_Witness ==
    /\ PackageReturns
    /\ Len(page_soup.pre) = 2
    /\ stdout = "# Foo-1.0\n\nmake\n\nmake install\n\n"

\* C3: with no chapter argument the run prints the usage message, exits
\* with status 1, never enters fetch_chapter or fetch_package and issues no
\* request.
C3_Usage ==
    Len(argv) < 2 =>
        /\ pc \in {"main", "exit"}
        /\ requests = <<>>
        /\ status = 0
        /\ pc = "exit" => /\ exit = 1
                          /\ error = ""
                          /\ stdout = Usage \o "\n"

C3_Witness == Len(argv) = 1 /\ pc = "exit" /\ exit = 1

\* C8: while fetch_package prints, the blocks written so far are the
\* stripped texts of the first user-input nodes of the page fetched last, one
\* line group per node and in document order; nothing is written between the
\* request for a page and its title.
C8_BlocksOfLatestPage ==
    /\ pc = "title" => stdout = ""
    /\ pc \in {"title", "for_pre"} => requests[Len(requests)] = url
    /\ pc = "for_pre" =>
         /\ pre - 1 <= Len(UserInputTexts(page_soup.pre))
         /\ stdout = HeaderLines(page_soup)
                \o BlockLines(SubSeq(UserInputTexts(page_soup.pre), 1, pre - 1))

C8_Witness ==
    /\ pc = "for_pre"
    /\ pre = 2
    /\ Len(page_soup.pre) = 2
    /\ page_soup.pre[1].class = "screen"
    /\ page_soup.pre[2].text = " make install\n"
    /\ stdout = "# Foo-1.0\n\nmake install\n\n"

\* C4 as claimed: after a response whose status is not 2xx no request is
\* issued and nothing is written.
C4_NonSuccessStops ==
    [][(status # 0 /\ ~(200 <= status /\ status < 300)) =>
          /\ Len(requests') <= Len(requests)
          /\ stdout' \in {stdout, ""}]_vars

\* C4 as amended: a 4xx or 5xx response to the index request or to a package
\* request ends the run at once with exit code 1: nothing is enabled any
\* more, so no later page and no later chapter is fetched or printed.
C4_HttpErrorStops ==
    (400 <= status /\ status < 600) =>
        /\ pc = "exit"
        /\ exit = 1
        /\ error = "HTTPError"
        /\ ~ENABLED Next

C4_Witness ==
    /\ status = 500
    /\ pc = "exit"
    /\ chapter < Len(argv)
    /\ Len(requests) = 2
    /\ Len(anchors) = 2

\* C5: fetch_chapter is called once per argument, in the order given, and a
\* call begins only when the call before it has returned: every request of
\* the earlier chapter is issued and the output of its last page is complete.
C5_ChaptersInOrder ==
    [][/\ (pc = "for_chapter" /\ pc' = "fetch_chapter") =>
            /\ ch' = argv[chapter]
            /\ index_url' = BASE_URL \o "/" \o argv[chapter] \o "/"
            /\ chapter > 2 =>
                 /\ error = ""
                 /\ ch = argv[chapter - 1]
                 /\ Tail(requests) = ExpectedRequests(ch, index_soup)
                 /\ Len(requests) > 1 => stdout = ExpectedOutput(page_soup)
       /\ chapter' # chapter => chapter' = chapter + 1 /\ ChapterReturns
       /\ Len(requests') > Len(requests) =>
            /\ chapter \in 2..Len(argv)
            /\ ch = argv[chapter]
            /\ requests'[Len(requests')] \in {index_url, url}]_vars

C5_Witness ==
    /\ pc = "fetch_chapter"
    /\ chapter = 3
    /\ argv = <<Script, "general", "x">>
    /\ ch = "x"
    /\ stdout = "# Foo-1.0\n\nmake\n\n"

\* C6: within a chapter the k-th package request goes to the k-th eligible
\* link of the index page, and it is issued only when the output of the page
\* before it is complete; output is written only for the page requested
\* last.
C6_PagesInOrder ==
    [][/\ (pc = "for_a" /\ pc' = "fetch_package") =>
            /\ Len(requests) <= Len(ExpectedRequests(ch, index_soup))
            /\ url' = ExpectedRequests(ch, index_soup)[Len(requests)]
            /\ Len(requests) > 1 =>
                 /\ page_soup.h1 # <<>>
                 /\ stdout = ExpectedOutput(page_soup)
       /\ (stdout' # stdout /\ pc \in {"title", "for_pre"}) =>
            /\ requests[Len(requests)] = url
            /\ a' = a
       /\ a' # a => a' = a + 1 \/ (a' = 1 /\ pc = "fetch_chapter")]_vars

C6_Witness ==
    /\ pc = "fetch_package"
    /\ index_soup = <<"b.html", "a.html">>
    /\ requests = <<BASE_URL \o "/x/", BASE_URL \o "/x/b.html">>
    /\ url = BASE_URL \o "/x/a.html"
    /\ stdout = "# Foo-1.0\n\nmake\n\nmake install\n\n"

\* C9: started with at least one chapter the run ends; it ends with exit
\* code 0 exactly when fetch_chapter has returned for every argument, and
\* with a non-zero code when a request failed.
C9_ExitCode ==
    /\ <>(pc = "exit")
    /\ [](pc = "exit" /\ Len(argv) >= 2 =>
            /\ exit \in {0, 1}
            /\ exit = 0 <=> (chapter = Len(argv) + 1 /\ error = "")
            /\ error \in {"RequestException", "HTTPError"} => exit # 0)

C9_Witness ==
    /\ pc = "exit"
    /\ exit = 0
    /\ Len(argv) = 3
    /\ chapter = 4
    /\ Len(requests) = 3

\* C10: a fetched package page without an h1 raises AttributeError before
\* anything is written for it, and the run ends there: no later step is
\* taken, so no later page or chapter is fetched or printed.
C10_MissingHeading ==
    [][/\ error # "AttributeError"
       /\ (pc = "title" /\ page_soup.h1 = <<>>) =>
            /\ pc' = "exit"
            /\ error' = "AttributeError"
            /\ exit' = 1
            /\ stdout = ""
            /\ stdout' = ""
            /\ requests' = requests]_vars

C10_Witness ==
    /\ pc = "exit"
    /\ error = "AttributeError"
    /\ exit = 1
    /\ stdout = ""
    /\ Len(page_soup.pre) = 2
    /\ a < Len(anchors)
    /\ chapter < Len(argv)

\* C7: the text printed for a block is the block's text without its leading
\* and trailing whitespace; every character between them is kept.
C7_StripKeepsInside ==
    (pc = "for_pre" /\ pre = 2) =>
        \E t \in Substrings(page_soup.pre[1].text) :
            /\ IsTrimOf(t, page_soup.pre[1].text)
            /\ stdout = "# Foo-1.0\n\n" \o t \o "\n\n"

C7_Witness ==
    /\ pc = "for_pre"
    /\ pre = 2
    /\ page_soup.pre[1].text = "\nm m "
    /\ stdout = "# Foo-1.0\n\nm m\n\n"

====
